---- MODULE Spec2Model ----
(***************************************************************************)
(* cdms-plays-chess: the /play intake (playMove, getGameMetadata), the     *)
(* bee-queue worker running processMove, the boards and moves tables, and  *)
(* the remote host (lichess) the moves are mirrored on.                    *)
(*                                                                         *)
(* Time is counted in seconds.  Every await of the source is a point where *)
(* other handlers may run, so each handler is cut into one action per      *)
(* stretch of synchronous code together with the await that starts it.     *)
(***************************************************************************)
EXTENDS Integers, Sequences, FiniteSets, TLC

\* ------------------------------------------------------------------ bounds
MaxJobs == 3        \* work items created over a run
MaxGames == 2       \* remote games created over a run
MaxTime == 3        \* the clock stops here
MaxTimeouts == 1    \* job timeouts over a run
MaxRefusals == 1    \* non-success answers of the remote host to a playable move

\* --------------------------------------------------------------- constants
PLAYER_1 == "carrie"
PLAYER_2 == "larry"
RANDOM == "random"
MOVE_TIMEOUT == 2   \* process.env.MOVE_TIMEOUT, in seconds
JOB_RETRIES == 1    \* .retries(1)

Teams == {PLAYER_1, PLAYER_2}
Users == {"u1", "u2"}
\* move texts a caller can submit: a move, a text that is never a legal move,
\* and the request for a random legal move
Texts == {"m", "bad", RANDOM}

\* ------------------------------------------------------------------- util
\* getOtherPlayer with the two results the wrong way round
getOtherPlayerSwapped(playingAs) == IF playingAs = PLAYER_1 THEN PLAYER_1 ELSE PLAYER_2

getOtherPlayer(playingAs) == IF playingAs = PLAYER_1 THEN PLAYER_2 ELSE PLAYER_1

\* ------------------------------------------------------ chess.js, abstracted
\* A position is the number of plies played and how the game stands.  The
\* mating move becomes legal after MatePly plies; a mated side has no move.
\* The move that completes a draw the rules engine reports (fifty-move rule)
\* becomes legal after DrawPly plies; play can go on from a drawn position.
MatePly == 1
DrawPly == 2
InitPos == [ply |-> 0, over |-> "no"]
NoPos == [ply |-> -1, over |-> "no"]

\* chess.moves()
LegalMoves(pos) ==
  IF pos.over = "mate" THEN {}
  ELSE IF pos.over = "draw" THEN {"m"}
  ELSE {"m"} \cup (IF pos.ply >= MatePly THEN {"mate"} ELSE {})
             \cup (IF pos.ply >= DrawPly THEN {"draw"} ELSE {})

\* chess.move(san) followed by chess.fen(); NoPos stands for the null result
ChessMove(pos, san) ==
  IF san \in LegalMoves(pos)
  THEN [ply |-> pos.ply + 1,
        over |-> IF san \in {"mate", "draw"} THEN san ELSE pos.over]
  ELSE NoPos

\* chess.game_over(), chess.in_checkmate()
game_over(pos) == pos.over # "no"
in_checkmate(pos) == pos.over = "mate"

\* getRandomMove with the index drawn from one too many: any element of
\* chess.moves(), or "undefined"
getRandomMoveOffByOne(pos) == LegalMoves(pos) \cup {"undefined"}

\* util.getRandomMove(chess): any element of chess.moves(); "undefined" (which
\* chess.move refuses) when there is none
getRandomMove(pos) == IF LegalMoves(pos) = {} THEN {"undefined"} ELSE LegalMoves(pos)

\* ------------------------------------------------------------------ state
VARIABLES
  now,        \* the clock
  boards,     \* table boards, in created_at order
  moves,      \* table moves, in move_id order
  lichess,    \* the remote host's games, indexed by game id
  queue,      \* bee-queue's waiting list, head first
  attempts,   \* running processMove calls; zombie = its job has timed out
  pending,    \* queries issued without await and not yet run by the store
  requests,   \* playMove calls between getGameMetadata and the moves query
  nextJob,    \* id of the next work item
  timeouts,   \* job timeouts so far
  refusals,   \* spurious remote refusals so far
  last,       \* the latest answer of playMove
  returned,   \* what processMove last returned since the worker took a job
  gate        \* the notification decision under test, with its inputs

vars == <<now, boards, moves, lichess, queue, attempts, pending, requests,
          nextJob, timeouts, refusals, last, returned, gate>>

\* pinned: the caller had a Move row in the game; flipped: the work item's team
\* is not the team the call started with; wait: the seconds named in the
\* cooldown message, 0 in every other answer
Answer(kind, pinned, flipped, job) ==
  [kind |-> kind, pinned |-> pinned, flipped |-> flipped, job |-> job, wait |-> 0]

\* no notification decision is under test
NoGate == [ongoingGameExists |-> FALSE, isGameOver |-> FALSE, elapsed |-> 0,
           currentMoveCount |-> 0, published |-> "none"]

Init ==
  /\ gate = NoGate
  /\ now = 0
  /\ boards = <<>>
  /\ moves = <<>>
  /\ lichess = <<>>
  /\ queue = <<>>
  /\ attempts = {}
  /\ pending = {}
  /\ requests = {}
  /\ nextJob = 1
  /\ timeouts = 0
  /\ refusals = 0
  /\ last = Answer("none", FALSE, FALSE, 0)
  /\ returned = "none"

\* ------------------------------------------------------------------ intake
\* SELECT * FROM boards ORDER BY created_at DESC LIMIT 1, and `row && !row.result`
HasOpenGame == boards # <<>> /\ boards[Len(boards)].result = ""
LatestBoard == boards[Len(boards)]

\* the pre-validation trying a random move whatever the text
PreValidationMovesAlwaysRandom(text) == getRandomMove(InitPos)

\* the move getGameMetadata tries on a fresh board when no game is open
PreValidationMoves(text) == IF text = RANDOM THEN getRandomMove(InitPos) ELSE {text}

\* work items and remote games still to come from the calls in flight
InFlight == Cardinality(requests)
Creating == Cardinality({r \in requests : r.creating})

\* getGameMetadata up to its return, or up to its await of createNewGame
getGameMetadata(u, text, playingAs) ==
  /\ \A r \in requests : r.user_name # u
  /\ nextJob + InFlight <= MaxJobs
  /\ IF HasOpenGame
     THEN /\ requests' = requests \cup
                {[user_name |-> u, text |-> text, playingAs |-> playingAs,
                  gameId |-> LatestBoard.game_id, ongoingGameExists |-> TRUE,
                  current_team |-> LatestBoard.current_team,
                  isPlayerTurn |-> (LatestBoard.current_team = playingAs),
                  creating |-> FALSE]}
          /\ UNCHANGED last
     ELSE \E san \in PreValidationMoves(text) :
            IF ChessMove(InitPos, san) = NoPos
            THEN /\ last' = Answer("invalid move", FALSE, FALSE, 0)
                 /\ UNCHANGED requests
            ELSE /\ Len(lichess) + Creating < MaxGames
                 /\ requests' = requests \cup
                       {[user_name |-> u, text |-> text, playingAs |-> playingAs,
                         gameId |-> 0, ongoingGameExists |-> FALSE,
                         current_team |-> "", isPlayerTurn |-> TRUE,
                         creating |-> TRUE]}
                 /\ UNCHANGED last
  /\ UNCHANGED <<gate, now, boards, moves, lichess, queue, attempts, pending, nextJob,
                 timeouts, refusals, returned>>

\* the moves query without its game_id condition
UserMoveIdsAnyGame(u, gameId) == {i \in 1..Len(moves) : moves[i].username = u}

\* SELECT * FROM moves WHERE username = $1 AND game_id = $2 ORDER BY move_id DESC LIMIT 1
UserMoveIds(u, gameId) ==
  {i \in 1..Len(moves) : moves[i].username = u /\ moves[i].game_id = gameId}
MaxOf(S) == CHOOSE x \in S : \A y \in S : y <= x

\* the comparison with MOVE_TIMEOUT left out of the environment: never true
CooldownUnset(timeSinceLastMove) == timeSinceLastMove < 0

\* timeSinceLastMove < process.env.MOVE_TIMEOUT
Cooldown(timeSinceLastMove) == timeSinceLastMove < MOVE_TIMEOUT

\* `Please wait ${process.env.MOVE_TIMEOUT / 1000} seconds between moves`: the
\* number put into the cooldown message
CooldownWait(timeSinceLastMove) == MOVE_TIMEOUT

\* the turn check of the earlier revision: any call for another team than the
\* recorded one is turned away, and no other
TurnViolationByRequest(playingAs, team, isPlayerTurn) == playingAs # team

\* the "please wait until it is your turn" condition
TurnViolation(playingAs, team, isPlayerTurn) ==
  \/ playingAs = team /\ ~isPlayerTurn
  \/ playingAs # team /\ isPlayerTurn

\* jobData without the `else if` branch: a caller without a Move row keeps the
\* team the call started with
EffectiveTeamAsRequested(playingAs, hasRow, team, ongoingGameExists, isPlayerTurn) ==
  IF hasRow THEN team ELSE playingAs

\* the playingAs put into jobData
EffectiveTeam(playingAs, hasRow, team, ongoingGameExists, isPlayerTurn) ==
  IF hasRow THEN team
  ELSE IF ongoingGameExists /\ ~isPlayerTurn THEN getOtherPlayer(playingAs)
  ELSE playingAs

\* playMove from the return of getGameMetadata (for a new game: from the answer
\* of createNewGame) to its response
playMove(r) ==
  /\ r \in requests
  /\ requests' = requests \ {r}
  /\ LET u == r.user_name
         gameId == IF r.creating THEN Len(lichess) + 1 ELSE r.gameId
         ids == UserMoveIds(u, gameId)
         hasRow == ids # {}
         team == IF hasRow THEN moves[MaxOf(ids)].team ELSE ""
         timeSinceLastMove == IF hasRow THEN now - moves[MaxOf(ids)].created_at ELSE 0
         effective == EffectiveTeam(r.playingAs, hasRow, team, r.ongoingGameExists,
                                    r.isPlayerTurn)
     IN /\ lichess' = IF r.creating
                      THEN Append(lichess, [pos |-> InitPos, turn |-> r.playingAs])
                      ELSE lichess
        /\ IF hasRow /\ Cooldown(timeSinceLastMove)
           THEN /\ last' = [Answer("cooldown", TRUE, FALSE, 0)
                              EXCEPT !.wait = CooldownWait(timeSinceLastMove)]
                /\ UNCHANGED <<queue, nextJob>>
           ELSE IF hasRow /\ TurnViolation(r.playingAs, team, r.isPlayerTurn)
           THEN /\ last' = Answer("not your turn", TRUE, FALSE, 0)
                /\ UNCHANGED <<queue, nextJob>>
           ELSE /\ queue' = Append(queue,
                       [id |-> nextJob, gameId |-> gameId,
                        ongoingGameExists |-> r.ongoingGameExists,
                        playingAs |-> effective, user_name |-> u,
                        suggestedMove |-> r.text, retries |-> JOB_RETRIES])
                /\ nextJob' = nextJob + 1
                /\ last' = Answer("submitted", hasRow, effective # r.playingAs, nextJob)
  /\ UNCHANGED <<gate, now, boards, moves, attempts, pending, timeouts, refusals, returned>>

\* ------------------------------------------------------------------ worker
\* bee-queue runs one handler at a time (process() without a concurrency)
WorkerIdle == \A a \in attempts : a.zombie

\* moveValidationQueue.process: the next waiting job is handed to processMove
takeJob ==
  /\ WorkerIdle
  /\ queue # <<>>
  /\ attempts' = attempts \cup
        {[job |-> Head(queue), pc |-> "start", pos |-> NoPos,
          count |-> 0, committed |-> "", zombie |-> FALSE]}
  /\ queue' = Tail(queue)
  /\ returned' = "none"
  /\ UNCHANGED <<gate, now, boards, moves, lichess, pending, requests, nextJob, timeouts,
                 refusals, last>>

\* SELECT * FROM boards WHERE game_id = $1 LIMIT 1
BoardIds(gameId) == {i \in 1..Len(boards) : boards[i].game_id = gameId}

\* the comparison without `currentPlayer &&`
TooLateUnguarded(currentPlayer, playingAs) == playingAs # currentPlayer

\* `currentPlayer && playingAs !== currentPlayer`; "" is the undefined of a
\* missing row
TooLate(currentPlayer, playingAs) == currentPlayer # "" /\ playingAs # currentPlayer

\* the board processMove plays on
StartPos(ongoingGameExists, hasRow, fen) ==
  IF ongoingGameExists /\ hasRow THEN fen ELSE InitPos

\* the move processMove commits to
CommittedMoves(suggestedMove, pos) ==
  IF suggestedMove = RANDOM THEN getRandomMove(pos) ELSE {suggestedMove}

\* the handler's promise never settles: the call stays with the worker
ReturnNever(a, result) ==
  /\ attempts' = attempts
  /\ returned' = result

\* a processMove call returns: the handler's promise settles
Return(a, result) ==
  /\ attempts' = attempts \ {a}
  /\ returned' = result

\* processMove from its boards query to an early return or to the fetch
processMoveRead(a) ==
  /\ a \in attempts /\ a.pc = "start"
  /\ LET ids == BoardIds(a.job.gameId)
         hasRow == ids # {}
         boardRow == boards[CHOOSE i \in ids : TRUE]
         currentPlayer == IF hasRow THEN boardRow.current_team ELSE ""
         currentMoveCount == IF hasRow THEN boardRow.move_count ELSE 0
         chess == StartPos(a.job.ongoingGameExists, hasRow,
                           IF hasRow THEN boardRow.fen ELSE InitPos)
     IN IF TooLate(currentPlayer, a.job.playingAs)
        THEN Return(a, "too late")
        ELSE \E committedMove \in CommittedMoves(a.job.suggestedMove, chess) :
               IF ChessMove(chess, committedMove) = NoPos
               THEN Return(a, IF committedMove = "undefined" THEN "no move"
                              ELSE "invalid move")
               ELSE /\ attempts' = (attempts \ {a}) \cup
                          {[a EXCEPT !.pc = "fetch",
                                     !.pos = ChessMove(chess, committedMove),
                                     !.count = currentMoveCount,
                                     !.committed = committedMove]}
                    /\ UNCHANGED returned
  /\ UNCHANGED <<gate, now, boards, moves, lichess, queue, pending, requests, nextJob,
                 timeouts, refusals, last>>

\* the remote host plays a move when it is posted with the token of the side
\* to move and is legal on the host's own board
Playable(g, playingAs, san) ==
  /\ g \in 1..Len(lichess)
  /\ lichess[g].turn = playingAs
  /\ san \in LegalMoves(lichess[g].pos)

\* the initial of the other team
InitialOfOpponent(playingAs) == IF playingAs = PLAYER_1 THEN "L" ELSE "C"

\* playingAs.toUpperCase().charAt(0)
Initial(playingAs) == IF playingAs = PLAYER_1 THEN "C" ELSE "L"

\* the result written with the move that ends the game; "" when none is written
ResultOf(pos, playingAs) ==
  IF ~game_over(pos) THEN ""
  ELSE IF in_checkmate(pos) THEN Initial(playingAs) ELSE "D"

\* the two queries issued whatever the response: processMove without `if (response.ok)`
WritesUnguarded(a, ok) ==
  {[job |-> a.job.id, retries |-> a.job.retries, stage |-> "insert",
    username |-> a.job.user_name, move |-> a.committed,
    team |-> a.job.playingAs, game_id |-> a.job.gameId,
    fen |-> a.pos, current_team |-> getOtherPlayer(a.job.playingAs),
    move_count |-> a.count + 1, result |-> ResultOf(a.pos, a.job.playingAs)]}

\* the two queries processMove issues without await when the response is ok
Writes(a, ok) ==
  IF ok
  THEN {[job |-> a.job.id, retries |-> a.job.retries, stage |-> "insert",
         username |-> a.job.user_name, move |-> a.committed,
         team |-> a.job.playingAs, game_id |-> a.job.gameId,
         fen |-> a.pos, current_team |-> getOtherPlayer(a.job.playingAs),
         move_count |-> a.count + 1, result |-> ResultOf(a.pos, a.job.playingAs)]}
  ELSE {}

\* processMove issuing its queries before it looks at the response
processMoveResponseWritesFirst(a, ok) ==
  /\ pending' = pending \cup Writes(a, TRUE)
  /\ Return(a, IF ok THEN "success" ELSE "rejected")

\* processMove from the answer of the fetch to its return
processMoveResponse(a, ok) ==
  /\ pending' = pending \cup Writes(a, ok)
  /\ Return(a, IF ok THEN "success" ELSE "rejected")

\* POST /api/board/game/{gameId}/move/{uciMove}: the remote host plays the move
\* or refuses it, and processMove runs on from the response
processMoveFetch(a) ==
  /\ a \in attempts /\ a.pc = "fetch"
  /\ \/ /\ Playable(a.job.gameId, a.job.playingAs, a.committed)
        /\ lichess' = [lichess EXCEPT ![a.job.gameId] =
                         [pos |-> ChessMove(@.pos, a.committed),
                          turn |-> getOtherPlayer(@.turn)]]
        /\ processMoveResponse(a, TRUE)
        /\ UNCHANGED refusals
     \/ /\ ~Playable(a.job.gameId, a.job.playingAs, a.committed)
        /\ processMoveResponse(a, FALSE)
        /\ UNCHANGED <<lichess, refusals>>
     \/ /\ Playable(a.job.gameId, a.job.playingAs, a.committed)
        /\ refusals < MaxRefusals
        /\ refusals' = refusals + 1
        /\ processMoveResponse(a, FALSE)
        /\ UNCHANGED lichess
  /\ UNCHANGED <<gate, now, boards, moves, queue, requests, nextJob, timeouts, last>>

\* the job's timeout fires before the handler's promise settles: bee-queue fails
\* the job, puts it back at the end of the waiting list if it has a retry left,
\* and goes on to the next job; the handler keeps running
jobTimeout(a) ==
  /\ a \in attempts /\ ~a.zombie
  /\ timeouts < MaxTimeouts
  /\ timeouts' = timeouts + 1
  /\ attempts' = (attempts \ {a}) \cup {[a EXCEPT !.zombie = TRUE]}
  /\ queue' = IF a.job.retries > 0
              THEN Append(queue, [a.job EXCEPT !.retries = @ - 1])
              ELSE queue
  /\ UNCHANGED <<gate, now, boards, moves, lichess, pending, requests, nextJob, refusals,
                 last, returned>>

\* ------------------------------------------------------------------- store
\* INSERT INTO moves(username, move, team, game_id)
storeInsert(w) ==
  /\ w \in pending /\ w.stage = "insert"
  /\ moves' = Append(moves, [username |-> w.username, move |-> w.move,
                             team |-> w.team, game_id |-> w.game_id,
                             created_at |-> now, job |-> w.job])
  /\ pending' = (pending \ {w}) \cup {[w EXCEPT !.stage = "upsert"]}
  /\ UNCHANGED <<gate, now, boards, lichess, queue, attempts, requests, nextJob, timeouts,
                 refusals, last, returned>>

\* INSERT INTO boards ... ON CONFLICT (game_id) DO UPDATE SET ...; the statement
\* of a move that does not end the game leaves the result column alone
Upsert(rows, w) ==
  IF \E i \in 1..Len(rows) : rows[i].game_id = w.game_id
  THEN [i \in 1..Len(rows) |->
          IF rows[i].game_id = w.game_id
          THEN [rows[i] EXCEPT !.fen = w.fen, !.current_team = w.current_team,
                               !.move_count = w.move_count,
                               !.result = IF w.result # "" THEN w.result ELSE @]
          ELSE rows[i]]
  ELSE Append(rows, [game_id |-> w.game_id, fen |-> w.fen,
                     current_team |-> w.current_team, move_count |-> w.move_count,
                     result |-> w.result])

storeUpsert(w) ==
  /\ w \in pending /\ w.stage = "upsert"
  /\ boards' = Upsert(boards, w)
  /\ pending' = pending \ {w}
  /\ UNCHANGED <<gate, now, moves, lichess, queue, attempts, requests, nextJob, timeouts,
                 refusals, last, returned>>

\* ----------------------------------------------------------------- queries
\* getBoardUrl and getChessProfile read the store and answer the caller; the
\* answer leaves no trace in the state
boardUrlAnswer == IF HasOpenGame THEN LatestBoard.game_id ELSE 0

getBoardUrl ==
  /\ boardUrlAnswer \in 0..MaxGames
  /\ UNCHANGED vars

\* the games of the caller, for the record of wins, losses and draws
profileGames(u) ==
  {boards[i].game_id :
     i \in {k \in 1..Len(boards) :
              \E j \in 1..Len(moves) : /\ moves[j].game_id = boards[k].game_id
                                       /\ moves[j].username = u}}

getChessProfile(u) ==
  /\ Cardinality(profileGames(u)) <= MaxGames
  /\ UNCHANGED vars

\* ------------------------------------------------------------------- clock
\* Only the difference now - created_at is read, so the clock is advanced only
\* while one of them can still cross MOVE_TIMEOUT.
TimerRunning == \E i \in 1..Len(moves) : now - moves[i].created_at < MOVE_TIMEOUT

Tick ==
  /\ now < MaxTime
  /\ TimerRunning
  /\ now' = now + 1
  /\ UNCHANGED <<gate, boards, moves, lichess, queue, attempts, pending, requests, nextJob,
                 timeouts, refusals, last, returned>>

\* the system with callers U whose move texts are drawn from T
NextOf(U, T) ==
  \/ \E u \in U, text \in T, playingAs \in Teams : getGameMetadata(u, text, playingAs)
  \/ \E r \in requests : playMove(r)
  \/ takeJob
  \/ \E a \in attempts : processMoveRead(a)
  \/ \E a \in attempts : processMoveFetch(a)
  \/ \E a \in attempts : jobTimeout(a)
  \/ \E w \in pending : storeInsert(w)
  \/ \E w \in pending : storeUpsert(w)
  \/ Tick

\* the system with the callers' move texts drawn from T
NextWith(T) == NextOf(Users, T)

Next == NextWith(Texts)

Spec == Init /\ [][Next]_vars

\* The program some time after an identity that plays no further part has
\* opened game 1 with an accepted first move: a state Spec reaches with that
\* identity's name in place of "u0".  Callers submit plain moves only.
InitOpenGame ==
  /\ gate = NoGate
  /\ now = MOVE_TIMEOUT
  /\ boards = <<[game_id |-> 1, fen |-> ChessMove(InitPos, "m"),
                 current_team |-> PLAYER_2, move_count |-> 1, result |-> ""]>>
  /\ moves = <<[username |-> "u0", move |-> "m", team |-> PLAYER_1, game_id |-> 1,
                created_at |-> 0, job |-> 0]>>
  /\ lichess = <<[pos |-> ChessMove(InitPos, "m"), turn |-> PLAYER_2]>>
  /\ queue = <<>>
  /\ attempts = {}
  /\ pending = {}
  /\ requests = {}
  /\ nextJob = 1
  /\ timeouts = 0
  /\ refusals = 0
  /\ last = Answer("none", FALSE, FALSE, 0)
  /\ returned = "none"

SpecOpenGame == InitOpenGame /\ [][NextWith({"m"})]_vars

\* The same start with callers that submit plain moves and requests for a
\* random legal move, which reach the moves that end the game.
SpecEndgame == InitOpenGame /\ [][NextOf(Users \cup {"u3"}, {"m", RANDOM})]_vars

\* The worker is scheduled and every await of processMove comes back: bee-queue
\* hands over the next waiting job when no handler holds the worker, and a
\* running processMove call goes on to its next await or to its return.
WorkerStep ==
  \/ takeJob
  \/ \E a \in attempts : processMoveRead(a)
  \/ \E a \in attempts : processMoveFetch(a)

\* the store runs every query it was sent
StoreStep == \E w \in pending : storeInsert(w) \/ storeUpsert(w)

SpecLive ==
  /\ InitOpenGame /\ [][NextWith({"m"})]_vars
  /\ WF_vars(WorkerStep)
  /\ WF_vars(StoreStep)

\* Every caller asks for a random move: each committed move is drawn from the
\* legal moves of the position its call read, so two attempts of one work item
\* need not commit to the same move.
SpecRandom == Init /\ [][NextWith({RANDOM})]_vars

\* The open-game start with the board and profile queries beside the moves.
NextWithQueries ==
  \/ NextWith(Texts)
  \/ getBoardUrl
  \/ \E u \in Users : getChessProfile(u)

SpecQueries == InitOpenGame /\ [][NextWithQueries]_vars

\* ------------------------------------------------------------ notification
NOTIFY_THRESHOLD == 1499   \* timeSinceLastUpdate > 1499
NEW_GAME_ELAPSED == 1500   \* the value taken for a game without a row
URL_CADENCE == 10          \* currentMoveCount % 10 === 0
MaxMoveCount == 20         \* move counts of the Game row read

\* milliseconds since the Game row's last update
Elapsed == {0, NOTIFY_THRESHOLD - 1, NOTIFY_THRESHOLD, NOTIFY_THRESHOLD + 1,
            2 * NOTIFY_THRESHOLD}

\* what an accepted move hands to the decision: a game with a row has at
\* least one move; a game without one is new
GateInputs ==
  {[ongoingGameExists |-> TRUE, isGameOver |-> o, elapsed |-> e,
    currentMoveCount |-> c, published |-> "pending"] :
       o \in BOOLEAN, e \in Elapsed, c \in 1..MaxMoveCount}
  \cup
  {[ongoingGameExists |-> FALSE, isGameOver |-> o, elapsed |-> 0,
    currentMoveCount |-> 0, published |-> "pending"] : o \in BOOLEAN}

timeSinceLastUpdate(ongoingGameExists, elapsed) ==
  IF ongoingGameExists THEN elapsed ELSE NEW_GAME_ELAPSED

\* `timeSinceLastUpdate > 1499 || isGameOver`
ShouldNotify(ongoingGameExists, isGameOver, elapsed) ==
  timeSinceLastUpdate(ongoingGameExists, elapsed) > NOTIFY_THRESHOLD \/ isGameOver

\* the link to the game is added to the text
gameUrlText(ongoingGameExists, isGameOver, currentMoveCount) ==
  ~isGameOver /\ (~ongoingGameExists \/ currentMoveCount % URL_CADENCE = 0)

\* processMove decides on the notification of an accepted move
notificationGate ==
  /\ gate.published = "pending"
  /\ gate' = [gate EXCEPT !.published =
                 IF ShouldNotify(gate.ongoingGameExists, gate.isGameOver, gate.elapsed)
                 THEN IF gameUrlText(gate.ongoingGameExists, gate.isGameOver,
                                     gate.currentMoveCount)
                      THEN "with link" ELSE "yes"
                 ELSE "no"]
  /\ UNCHANGED <<now, boards, moves, lichess, queue, attempts, pending, requests,
                 nextJob, timeouts, refusals, last, returned>>

\* the decision alone, on every input
InitNotify ==
  /\ gate \in GateInputs
  /\ now = 0
  /\ boards = <<>>
  /\ moves = <<>>
  /\ lichess = <<>>
  /\ queue = <<>>
  /\ attempts = {}
  /\ pending = {}
  /\ requests = {}
  /\ nextJob = 1
  /\ timeouts = 0
  /\ refusals = 0
  /\ last = Answer("none", FALSE, FALSE, 0)
  /\ returned = "none"

SpecNotify == InitNotify /\ [][notificationGate]_vars

\* ------------------------------------------------------------------ claims
\* nothing is in flight: no call, no queued or running work item, no query
Quiescent == requests = {} /\ queue = <<>> /\ attempts = {} /\ pending = {}

MovesOf(gameId) == {i \in 1..Len(moves) : moves[i].game_id = gameId}

\* C1: all Move rows of one identity within one game carry the same team.
C1_Pinning ==
  \A i, j \in 1..Len(moves) :
    (moves[i].username = moves[j].username /\ moves[i].game_id = moves[j].game_id)
      => moves[i].team = moves[j].team

\* C2: at most one Game row without a result exists.
C2_OneOpenGame == Cardinality({i \in 1..Len(boards) : boards[i].result = ""}) <= 1

\* C3: at most one processMove call is in flight for a game identifier, a call
\* whose job has timed out included.
C3_OneInFlight ==
  \A a, b \in attempts : a.job.gameId = b.job.gameId => a = b

\* C4: once nothing is in flight, the Game row's move_count equals the number
\* of Move rows recorded for that game.
C4_MoveCount ==
  Quiescent =>
    \A i \in 1..Len(boards) :
      boards[i].move_count = Cardinality(MovesOf(boards[i].game_id))

\* C5: within one game, a work item enqueued earlier gets its Move row first:
\* before any Move row of a work item, every work item of the game that was
\* enqueued before it and has a Move row already has one (work item ids are
\* given in enqueue order).
C5_EnqueueOrder ==
  \A i, j \in 1..Len(moves) :
    (moves[i].game_id = moves[j].game_id /\ moves[i].job < moves[j].job)
      => \E k \in 1..Len(moves) : k < j /\ moves[k].job = moves[i].job

\* C6: a processMove call whose move the remote host does not play returns the
\* rejected outcome and issues no query: no Move row is inserted and the Game
\* row keeps its position, move count, team-to-move and result.
C6_RejectedNoWrites ==
  [][\A a \in attempts :
       (processMoveFetch(a) /\ lichess' = lichess)
         => /\ returned' = "rejected"
            /\ pending' = pending
            /\ moves' = moves
            /\ boards' = boards]_vars

\* a remote refusal of a move the remote host could have played has happened
\* and the call has returned rejected, with a Game row to keep unchanged
C6_Witness == returned = "rejected" /\ refusals > 0 /\ boards # <<>>

\* C7: within MOVE_TIMEOUT of the start an identity gets at most one work item
\* into the queue, the second call being answered with Cooldown.
C7_Throttle ==
  now < MOVE_TIMEOUT =>
    \A u \in Users : Cardinality({i \in 1..Len(queue) : queue[i].user_name = u}) <= 1

\* the caller's latest Move row in the game the call is about, 0 when none
LatestMoveId(r) ==
  IF UserMoveIds(r.user_name, r.gameId) = {} THEN 0
  ELSE MaxOf(UserMoveIds(r.user_name, r.gameId))

\* the call enqueues exactly one work item, for the given team
Enqueues(r, team) ==
  /\ Len(queue') = Len(queue) + 1
  /\ SubSeq(queue', 1, Len(queue)) = queue
  /\ queue'[Len(queue')].id = nextJob
  /\ queue'[Len(queue')].playingAs = team
  /\ queue'[Len(queue')].user_name = r.user_name
  /\ last'.kind = "submitted"

\* the call enqueues nothing and causes no write
NoEffect == queue' = queue /\ nextJob' = nextJob /\ pending' = pending
            /\ moves' = moves /\ boards' = boards

\* C8: a call whose caller's latest Move row in the open game is younger than
\* MOVE_TIMEOUT is answered with the cooldown message, whatever the turn check
\* would say, and enqueues nothing, so no Move row comes of it.
C8_Cooldown ==
  [][\A r \in requests :
       (/\ playMove(r)
        /\ LatestMoveId(r) # 0
        /\ now - moves[LatestMoveId(r)].created_at < MOVE_TIMEOUT)
         => last'.kind = "cooldown" /\ NoEffect]_vars

\* a call has been answered with the cooldown message
C8_Witness == last.kind = "cooldown"

\* every work item with the team it carries: in the queue, in a running call,
\* in a query not yet run, in a Move row
Carriers ==
  {<<queue[i].id, queue[i].playingAs>> : i \in 1..Len(queue)}
    \cup {<<a.job.id, a.job.playingAs>> : a \in attempts}
    \cup {<<w.job, w.team>> : w \in pending}
    \cup {<<moves[i].job, moves[i].team>> : i \in 1..Len(moves)}

\* C9: with a game open and waiting on team A, a call of an identity without a
\* Move row in it that started with team B enqueues a work item for team A; a
\* work item gets its team when it is enqueued and carries no other through
\* the queue, its retry, processMove and the insert, so its Move row records
\* team A.
C9_Routing ==
  [][/\ \A r \in requests :
          (/\ playMove(r)
           /\ r.ongoingGameExists
           /\ LatestMoveId(r) = 0
           /\ r.playingAs # r.current_team)
            => Enqueues(r, r.current_team)
     /\ \A p \in Carriers : p[1] < nextJob
     /\ \A p \in Carriers' \ Carriers : p[1] = nextJob /\ nextJob' = nextJob + 1]_vars

\* the latest call came from an identity without a Move row, was given the
\* other team than it started with, and its work item has its Move row
C9_Witness ==
  /\ last.kind = "submitted" /\ ~last.pinned /\ last.flipped
  /\ \E i \in 1..Len(moves) : moves[i].job = last.job

\* C10: a call of an identity with a Move row in the open game, past its
\* cooldown, is answered "not your turn" exactly when the recorded team is not
\* the team to move, and otherwise enqueues a work item for the recorded team;
\* the team the call started with plays no part.
C10_PinnedOutcome ==
  [][\A r \in requests :
       (/\ playMove(r)
        /\ LatestMoveId(r) # 0
        /\ now - moves[LatestMoveId(r)].created_at >= MOVE_TIMEOUT)
         => IF moves[LatestMoveId(r)].team # r.current_team
            THEN last'.kind = "not your turn" /\ NoEffect
            ELSE Enqueues(r, moves[LatestMoveId(r)].team)]_vars

\* the latest call came from an identity with a Move row, started with the
\* other team than the recorded one, and was enqueued
C10_Witness == last.kind = "submitted" /\ last.pinned /\ last.flipped

\* the Game row of the game has a result
GameEnded(gameId) ==
  \E i \in 1..Len(boards) : boards[i].game_id = gameId /\ boards[i].result # ""

\* C11: a processMove call that gets the remote host's answer when the Game
\* row of its game has a result issues no query, so the row keeps every field
\* and no Move row is appended; stated for runs without a job timeout.
C11_Immutable ==
  [][\A a \in attempts :
       (processMoveFetch(a) /\ timeouts = 0 /\ GameEnded(a.job.gameId))
         => pending' = pending]_vars

\* two work items so far, no job timeout: the first has its Move row, written
\* in full, and the second, of another identity, is for the same game
TwoIdentities(job2) ==
  /\ timeouts = 0
  /\ nextJob = 3
  /\ moves # <<>> /\ moves[1].job = 1
  /\ job2.id = 2
  /\ job2.gameId = moves[1].game_id
  /\ job2.user_name # moves[1].username

\* C12: from an empty store, after a first identity's move was accepted and
\* written, the move of a second identity is for the other team whatever team
\* its call started with, the remote host has no ground to refuse it, and
\* once it is written the Game row has move count 2 and the first identity's
\* team to move.
C12_TwoIdentities ==
  /\ \A a \in attempts :
       (TwoIdentities(a.job) /\ Len(moves) = 1 /\ pending = {} /\ a.pc = "fetch")
         => /\ a.job.playingAs # moves[1].team
            /\ Playable(a.job.gameId, a.job.playingAs, a.committed)
  /\ (/\ Quiescent /\ timeouts = 0 /\ nextJob = 3
      /\ Len(moves) = 2 /\ moves[1].job = 1 /\ moves[2].job = 2
      /\ moves[1].game_id = moves[2].game_id
      /\ moves[1].username # moves[2].username)
       => /\ moves[2].team # moves[1].team
          /\ \A i \in BoardIds(moves[1].game_id) :
               boards[i].move_count = 2 /\ boards[i].current_team = moves[1].team

\* both moves are written, and the second identity's call had started with the
\* first identity's team
C12_Witness ==
  /\ Quiescent /\ timeouts = 0 /\ nextJob = 3
  /\ Len(moves) = 2 /\ moves[1].job = 1 /\ moves[2].job = 2
  /\ moves[1].game_id = moves[2].game_id
  /\ moves[1].username # moves[2].username
  /\ last.kind = "submitted" /\ last.job = 2 /\ last.flipped
  /\ BoardIds(moves[1].game_id) # {}

\* the Game row a processMove call reads, and what it takes from it
ReadIds(a) == BoardIds(a.job.gameId)
ReadTeam(a) ==
  IF ReadIds(a) = {} THEN "" ELSE boards[CHOOSE i \in ReadIds(a) : TRUE].current_team
ReadPos(a) ==
  StartPos(a.job.ongoingGameExists, ReadIds(a) # {},
           IF ReadIds(a) = {} THEN InitPos
           ELSE boards[CHOOSE i \in ReadIds(a) : TRUE].fen)

\* the call ends here: no remote call, no query
EndsWithoutEffect(a) ==
  /\ attempts' = attempts \ {a}
  /\ lichess' = lichess /\ pending' = pending /\ moves' = moves /\ boards' = boards

\* C13: a processMove call for a random legal move that gets past the turn
\* check plays the one legal move when the board has exactly one, and with no
\* legal move returns rejected without a remote call or a query.
C13_RandomMove ==
  [][\A a \in attempts :
       (/\ processMoveRead(a)
        /\ a.job.suggestedMove = RANDOM
        /\ ~(ReadTeam(a) # "" /\ ReadTeam(a) # a.job.playingAs))
         => /\ LegalMoves(ReadPos(a)) = {}
                 => returned' = "no move" /\ EndsWithoutEffect(a)
            /\ \A san \in LegalMoves(ReadPos(a)) :
                 LegalMoves(ReadPos(a)) = {san}
                   => \E b \in attempts' :
                        /\ b.job = a.job /\ b.pc = "fetch" /\ b.committed = san
                        /\ b.pos = ChessMove(ReadPos(a), san)]_vars

\* a request for a random legal move has met a board without a legal move
C13_Witness == returned = "no move"

\* the decision the design describes: the game just ended, or was just
\* created, or the last update is longer ago than the threshold, or the move
\* count is on the cadence
ReferenceNotify(g) ==
  \/ g.isGameOver
  \/ ~g.ongoingGameExists
  \/ g.elapsed > NOTIFY_THRESHOLD
  \/ g.currentMoveCount % URL_CADENCE = 0

\* C14: for an accepted move a notification is published exactly when the
\* described decision says so.
C14_GateAgrees ==
  gate.published \notin {"none", "pending"}
    => ((gate.published # "no") <=> ReferenceNotify(gate))

\* C15: a processMove call that finds the Game row with another team to move
\* than its work item's returns "too late" without a remote call or a query;
\* without a Game row no call ends that way, whatever its team.
C15_TooLate ==
  [][\A a \in attempts :
       processMoveRead(a)
         => IF ReadIds(a) # {} /\ ReadTeam(a) # a.job.playingAs
            THEN returned' = "too late" /\ EndsWithoutEffect(a)
            ELSE ReadIds(a) = {}
                   => ~(returned' = "too late" /\ attempts' = attempts \ {a})]_vars

\* a call has returned "too late"
C15_Witness == returned = "too late"

\* the queries an accepted move issues, written out
AcceptedWrites(a) ==
  [job |-> a.job.id, retries |-> a.job.retries, stage |-> "insert",
   username |-> a.job.user_name, move |-> a.committed,
   team |-> a.job.playingAs, game_id |-> a.job.gameId, fen |-> a.pos,
   current_team |-> IF a.job.playingAs = PLAYER_1 THEN PLAYER_2 ELSE PLAYER_1,
   move_count |-> a.count + 1,
   result |-> IF a.pos.over = "no" THEN ""
              ELSE IF a.pos.over = "mate"
                   THEN (IF a.job.playingAs = PLAYER_1 THEN "C" ELSE "L")
                   ELSE "D"]

\* the Game row of w's game after w's upsert: w's position, count and team to
\* move, and w's result if it has one
Upserted(w) ==
  /\ Cardinality({i \in 1..Len(boards') : boards'[i].game_id = w.game_id}) = 1
  /\ \A i \in 1..Len(boards') :
       IF boards'[i].game_id = w.game_id
       THEN /\ boards'[i].fen = w.fen
            /\ boards'[i].move_count = w.move_count
            /\ boards'[i].current_team = w.current_team
            /\ boards'[i].result =
                 IF w.result # "" THEN w.result
                 ELSE IF i <= Len(boards) THEN boards[i].result ELSE ""
       ELSE i <= Len(boards) /\ boards'[i] = boards[i]

\* C16: when the remote host plays the move, processMove issues one Move
\* insert (identity, committed move, effective team, game id) and one Game
\* upsert (resulting position, the count it read plus one, the opposite team
\* to move, and a result only if the move ended the game: the team's initial
\* for checkmate, 'D' otherwise), and the store applies them as one Move row
\* and one Game row.
C16_AcceptedWrites ==
  [][/\ \A a \in attempts :
          (processMoveFetch(a) /\ lichess' # lichess)
            => /\ AcceptedWrites(a) \notin pending
               /\ pending' = pending \cup {AcceptedWrites(a)}
               /\ returned' = "success"
     /\ \A w \in pending :
          storeInsert(w)
            => /\ moves' = Append(moves, [username |-> w.username, move |-> w.move,
                                          team |-> w.team, game_id |-> w.game_id,
                                          created_at |-> now, job |-> w.job])
               /\ boards' = boards
     /\ \A w \in pending :
          storeUpsert(w) => Upserted(w) /\ moves' = moves]_vars

\* a checkmate has been written: a Game row carries a team's initial
C16_Witness == \E i \in 1..Len(boards) : boards[i].result \in {"C", "L"}

\* C17: with no game open, a call whose move is not legal from the initial
\* position is answered "invalid move" at once: no remote game is created,
\* nothing is enqueued and no row is written.
C17_PreValidation ==
  [][\A u \in Users, text \in Texts \ {RANDOM}, playingAs \in Teams :
       (/\ getGameMetadata(u, text, playingAs)
        /\ ~HasOpenGame
        /\ text \notin LegalMoves(InitPos))
         => /\ last'.kind = "invalid move"
            /\ requests' = requests /\ lichess' = lichess
            /\ NoEffect]_vars

\* a call has been answered "invalid move" by the pre-validation
C17_Witness == last.kind = "invalid move"

\* C18: a call answered with the cooldown or the "not your turn" message has
\* created no remote game, enqueued nothing and left every row as it was.
C18_RejectionNoEffect ==
  [][\A r \in requests :
       (playMove(r) /\ last'.kind \in {"cooldown", "not your turn"})
         => ~r.creating /\ lichess' = lichess /\ NoEffect]_vars

\* a call has been answered "not your turn" with a game on record
C18_Witness == last.kind = "not your turn" /\ boards # <<>> /\ lichess # <<>>

\* C21: the cooldown message names the remaining wait, MOVE_TIMEOUT minus the
\* time since the caller's latest Move row in the game.
C21_RemainingWait ==
  [][\A r \in requests :
       (playMove(r) /\ last'.kind = "cooldown")
         => last'.wait = MOVE_TIMEOUT - (now - moves[LatestMoveId(r)].created_at)]_vars

\* C19: no step of an intake call contacts the remote host.
C19_IntakeNoRemote ==
  [][\A r \in requests : playMove(r) => lichess' = lichess]_vars

\* the pairs of queries issued and not yet run in full
Issued == {[w EXCEPT !.stage = "insert"] : w \in pending}

\* C20: Game and Move rows change only when the store runs a query issued by
\* processMove, and processMove issues queries only in the step in which the
\* remote host plays its move; the intake steps and the board and profile
\* queries change no row and issue no query.
C20_WritesOnlyByProcessMove ==
  [][/\ (boards' # boards \/ moves' # moves)
          => \E w \in pending : storeInsert(w) \/ storeUpsert(w)
     /\ ~(Issued' \subseteq Issued)
          => \E a \in attempts : processMoveFetch(a) /\ lichess' # lichess
     /\ (\/ \E u \in Users, text \in Texts, playingAs \in Teams :
               getGameMetadata(u, text, playingAs)
         \/ \E r \in requests : playMove(r)
         \/ getBoardUrl
         \/ \E u \in Users : getChessProfile(u))
          => boards' = boards /\ moves' = moves /\ pending' = pending]_vars

\* rows have been written while a call was answered
C20_Witness == moves # <<>> /\ boards # <<>> /\ last.kind = "submitted"

\* C22: no work item has more than one Move row, a job timeout and the retry
\* it causes included.
C22_OneRowPerWorkItem ==
  \A i, j \in 1..Len(moves) : moves[i].job = moves[j].job => i = j

\* C23: with no job timeout, whenever a processMove call reads the Game row no
\* query for its game is still to be run by the store, so the read sees the
\* team to move and the count of every move accepted before; and no intake
\* call reads the store while a Move row is written and its Game upsert is not.
C23_WritesBeforeNextRead ==
  [][/\ \A a \in attempts :
          (processMoveRead(a) /\ timeouts = 0)
            => \A w \in pending : w.game_id # a.job.gameId
     /\ \A u \in Users, text \in Texts, playingAs \in Teams :
          getGameMetadata(u, text, playingAs)
            => \A w \in pending : w.stage # "upsert"]_vars

\* the work items waiting or being processed, retries left included
Outstanding ==
  {queue[i] : i \in 1..Len(queue)} \cup {a.job : a \in attempts}

\* a work item's attempts are numbered by the retries it has left: never more
\* than JOB_RETRIES + 1 of them, and no attempt is started twice
AtMostTwoAttempts ==
  /\ \A j \in Outstanding : j.retries \in 0..JOB_RETRIES
  /\ \A i, k \in 1..Len(queue) :
       (queue[i].id = queue[k].id /\ queue[i].retries = queue[k].retries) => i = k
  /\ \A a, b \in attempts :
       (a.job.id = b.job.id /\ a.job.retries = b.job.retries) => a = b
  /\ \A a \in attempts : \A i \in 1..Len(queue) :
       queue[i].id = a.job.id => queue[i].retries < a.job.retries

C25_Alternation ==
  pending = {}
    => \A g \in 1..Len(lichess) :
         LET ids == {i \in 1..Len(moves) : moves[i].game_id = g}
         IN /\ \A i, j \in ids :
                 (i < j /\ ~\E k \in ids : i < k /\ k < j)
                   => moves[i].team # moves[j].team
            /\ \A b \in 1..Len(boards) :
                 (boards[b].game_id = g /\ ids # {})
                   => boards[b].current_team # moves[MaxOf(ids)].team

====
